---- MODULE Spec2Model ----
(***************************************************************************)
(* WCDB::TimedQueue<Key, Info> (objc/source/util/timed_queue.hpp).         *)
(*                                                                         *)
(* One consumer thread runs waitUntilExpired step by step; producers call  *)
(* reQueue and remove, each of which runs entirely under m_mutex and is    *)
(* therefore one action; notify() takes no lock and is two steps (the      *)
(* store to m_break, then m_cond.notify_one()).                            *)
(*                                                                         *)
(* Time is std::chrono::steady_clock, modelled by the integer `clock`.     *)
(* The value MaxTime stands for "MaxTime or any later instant": every      *)
(* expiry time in the model is below MaxTime, so all comparisons against   *)
(* an instant at or after MaxTime have the same outcome.                   *)
(***************************************************************************)
EXTENDS Integers, Sequences, FiniteSets, TLC

\* ---------------------------------------------------------------- bounds
MaxTime == 3          \* horizon of the clock
MaxDelay == 1         \* the constructor's delay argument ranges over 1..MaxDelay
MaxInserts == 2       \* number of reQueue calls in one run

Keys == {"a", "b"}    \* values of the template parameter Key
Infos == {"x", "y"}   \* values of the template parameter Info

VARIABLES
    m_list,        \* std::list<shared_ptr<Element>>, front (newest) first
    m_map,         \* unordered_map<Key, List::iterator>: key -> node
    m_break,       \* std::atomic<bool>
    m_delay,       \* std::chrono::seconds
    m_mutex,       \* "free" or "consumer" (producers hold it within one action)
    clock,         \* steady_clock::now()
    c_pc,          \* position of the consumer thread in waitUntilExpired
    now,           \* local `now` of waitUntilExpired
    element,       \* local `element` of waitUntilExpired
    get,           \* local `get` of waitUntilExpired
    wakeAt,        \* instant at which sleep_for returns
    n_pc,          \* position of the thread calling notify()
    nextId,        \* number of the next reQueue call (identity of its node)
    delivered,     \* history: the onExpired invocations, in order
    result,        \* history: how the last waitUntilExpired call ended
    notifyReturned,   \* history: some notify() call has returned
    removed,       \* history: keys removed by remove() and not reQueued since
    lastReq,       \* history: key -> number and payload of its latest reQueue call
    reQueueSignals \* history: number of m_cond.notify_one() calls made by reQueue

vars == <<m_list, m_map, m_break, m_delay, m_mutex, clock, c_pc, now, element,
          get, wakeAt, n_pc, nextId, delivered, result,
          notifyReturned, removed, lastReq, reQueueSignals>>

consumerLocals == <<now, element, get, wakeAt>>
queueState == <<m_list, m_map>>
producerHistory == <<nextId, removed, lastReq, reQueueSignals>>
notifyState == <<n_pc, notifyReturned>>

\* no reQueue call yet
NoReq == [id |-> 0, info |-> "none"]

NoElement == [key |-> "none", time |-> 0, info |-> "none", id |-> 0, ins |-> 0]

Min(a, b) == IF a < b THEN a ELSE b

\* ------------------------------------------------------- container helpers
\* erase(m_list.begin()): the front node is unlinked whatever the iterator
ListErase_front(list, node) == Tail(list)

\* erase that unlinks nothing
ListErase_none(list, node) == list

\* std::list::erase(iterator): unlink the node the iterator designates
ListErase(list, node) == SelectSeq(list, LAMBDA e : e.id # node)

\* std::unordered_map::erase(key)
MapErase(map, key) == [k \in (DOMAIN map) \ {key} |-> map[k]]

\* std::unordered_map::insert({key, it}): no effect when the key is present
MapInsert(map, key, node) ==
    IF key \in DOMAIN map THEN map ELSE (key :> node) @@ map

\* the new element put at the back end instead
PushFront_atBack(list, e) == Append(list, e)

\* std::list::push_front
PushFront(list, e) == <<e>> \o list

\* pop_front in the place of pop_back
PopBack_front(list) == Tail(list)

\* std::list::back / pop_back
Back(list) == list[Len(list)]
PopBack(list) == SubSeq(list, 1, Len(list) - 1)

\* unsafeRemove without line 132: the node is unlinked, the index keeps the key
unsafeRemove_keepsIndex(list, map, key) ==
    IF key \in DOMAIN map THEN <<ListErase(list, map[key]), map>> ELSE <<list, map>>

\* unsafeRemove without line 131: the key leaves the index, the node stays
unsafeRemove_keepsNode(list, map, key) ==
    IF key \in DOMAIN map THEN <<list, MapErase(map, key)>> ELSE <<list, map>>

\* unsafeRemove(key): the pair <<m_list, m_map>> after the call
unsafeRemove(list, map, key) ==
    IF key \in DOMAIN map
    THEN <<ListErase(list, map[key]), MapErase(map, key)>>
    ELSE <<list, map>>

\* the comparison with >= in the place of >
Expired_orEqual(n, t) == n >= t

\* the comparison turned round
Expired_inverted(n, t) == n < t

\* the test `now > element->time` of waitUntilExpired
Expired(n, t) == n > t

\* a notification that wakes nobody
NotifyOne_dropped(pc) == pc

\* m_cond.notify_one(): a consumer blocked in m_cond.wait is made runnable;
\* with no waiter the notification is dropped
NotifyOne(pc) == IF pc = "waiting" THEN "woken" ELSE pc

\* `signal` always true: reQueue notifies whatever the list held
Signal_always(list) == TRUE

\* line 46: bool signal = m_list.empty()
Signal(list) == list = <<>>

\* a segmentation fault ends the process: no thread takes another step
Running == c_pc # "crashed"

\* -------------------------------------------------------------------- Init
Init ==
    /\ m_list = <<>>
    /\ m_map = [k \in {} |-> 0]
    /\ m_break = FALSE
    /\ m_delay \in 1..MaxDelay
    /\ m_mutex = "free"
    /\ clock = 0
    /\ c_pc = "idle"
    /\ now = 0
    /\ element = NoElement
    /\ get = FALSE
    /\ wakeAt = 0
    /\ n_pc = "idle"
    /\ nextId = 1
    /\ delivered = <<>>
    /\ result = "none"
    /\ notifyReturned = FALSE
    /\ removed = {}
    /\ lastReq = [k \in Keys |-> NoReq]
    /\ reQueueSignals = 0

\* ------------------------------------------------------------- producers
\* reQueue(key, info), lines 43-59, under lock_guard(m_mutex)
reQueue(key, info) ==
    /\ Running
    /\ m_mutex = "free"
    /\ nextId <= MaxInserts
    /\ clock + m_delay < MaxTime      \* every expiry lies below the horizon
    /\ LET signal == Signal(m_list)
           rm == unsafeRemove(m_list, m_map, key)
           e == [key |-> key, time |-> clock + m_delay, info |-> info,
                 id |-> nextId, ins |-> clock]
       IN /\ m_list' = PushFront(rm[1], e)
          /\ m_map' = MapInsert(rm[2], key, e.id)
          /\ c_pc' = IF signal THEN NotifyOne(c_pc) ELSE c_pc
          /\ reQueueSignals' = IF signal THEN reQueueSignals + 1
                                       ELSE reQueueSignals
    /\ nextId' = nextId + 1
    /\ removed' = removed \ {key}
    /\ lastReq' = [lastReq EXCEPT ![key] = [id |-> nextId, info |-> info]]
    /\ UNCHANGED <<m_break, m_delay, m_mutex, clock, consumerLocals,
                   notifyState, delivered, result>>

\* remove that also calls m_cond.notify_one()
remove_signals(key) ==
    /\ Running
    /\ m_mutex = "free"
    /\ LET rm == unsafeRemove(m_list, m_map, key)
       IN /\ m_list' = rm[1]
          /\ m_map' = rm[2]
    /\ c_pc' = NotifyOne(c_pc)
    /\ removed' = removed \cup {key}
    /\ UNCHANGED <<m_break, m_delay, m_mutex, clock, consumerLocals,
                   notifyState, nextId, delivered, result, lastReq,
                   reQueueSignals>>

\* remove(key), lines 61-65, under lock_guard(m_mutex)
remove(key) ==
    /\ Running
    /\ m_mutex = "free"
    /\ LET rm == unsafeRemove(m_list, m_map, key)
       IN /\ m_list' = rm[1]
          /\ m_map' = rm[2]
    /\ removed' = removed \cup {key}
    /\ UNCHANGED <<m_break, m_delay, m_mutex, clock, c_pc, consumerLocals,
                   notifyState, nextId, delivered, result, lastReq,
                   reQueueSignals>>

\* ---------------------------------------------------------------- notify
\* a thread enters notify()
notifyCall ==
    /\ Running
    /\ n_pc = "idle"
    /\ n_pc' = "setBreak"
    /\ UNCHANGED <<queueState, m_break, m_delay, m_mutex, clock, c_pc,
                   consumerLocals, producerHistory, delivered, result, notifyReturned>>

\* line 69 as a toggle: m_break = !m_break
notifySetBreak_toggles ==
    /\ Running
    /\ n_pc = "setBreak"
    /\ m_break' = ~m_break
    /\ n_pc' = "signal"
    /\ UNCHANGED <<queueState, m_delay, m_mutex, clock, c_pc, consumerLocals,
                   producerHistory, delivered, result, notifyReturned>>

\* notify() without line 69: the flag is left as it is
notifySetBreak_forgets ==
    /\ Running
    /\ n_pc = "setBreak"
    /\ n_pc' = "signal"
    /\ UNCHANGED <<queueState, m_break, m_delay, m_mutex, clock, c_pc,
                   consumerLocals, producerHistory, delivered, result,
                   notifyReturned>>

\* line 69: m_break = true (no lock held)
notifySetBreak ==
    /\ Running
    /\ n_pc = "setBreak"
    /\ m_break' = TRUE
    /\ n_pc' = "signal"
    /\ UNCHANGED <<queueState, m_delay, m_mutex, clock, c_pc, consumerLocals,
                   producerHistory, delivered, result,
                   notifyReturned>>

\* line 70: m_cond.notify_one() (no lock held), then return
notifySignal ==
    /\ Running
    /\ n_pc = "signal"
    /\ c_pc' = NotifyOne(c_pc)
    /\ n_pc' = "idle"
    /\ notifyReturned' = TRUE
    /\ UNCHANGED <<queueState, m_break, m_delay, m_mutex, clock,
                   consumerLocals, producerHistory, delivered, result>>

\* ------------------------------------------------- consumer: lines 73-84
\* the consumer thread enters waitUntilExpired
waitUntilExpiredCall ==
    /\ c_pc = "idle"
    /\ c_pc' = "lock1"
    /\ result' = "none"
    /\ UNCHANGED <<queueState, m_break, m_delay, m_mutex, clock,
                   consumerLocals, notifyState, producerHistory, delivered>>

\* line 76: unique_lock(m_mutex)
lockForWait ==
    /\ c_pc = "lock1"
    /\ m_mutex = "free"
    /\ m_mutex' = "consumer"
    /\ c_pc' = "checkEmpty"
    /\ UNCHANGED <<queueState, m_break, m_delay, clock, consumerLocals,
                   notifyState, producerHistory, delivered, result>>

\* line 77: while (m_list.empty()); a non-empty list leaves the block at
\* line 84, which unlocks; line 85 sets get = false
checkEmpty ==
    /\ c_pc = "checkEmpty"
    /\ IF m_list = <<>>
       THEN /\ c_pc' = "checkBreak"
            /\ UNCHANGED <<m_mutex, get>>
       ELSE /\ c_pc' = "loop"
            /\ m_mutex' = "free"
            /\ get' = FALSE
    /\ UNCHANGED <<queueState, m_break, m_delay, clock, now, element, wakeAt,
                   notifyState, producerHistory, delivered, result>>

\* line 78 with the test negated: if (m_break) wait, else return
checkBreak_negated ==
    /\ c_pc = "checkBreak"
    /\ IF m_break
       THEN /\ c_pc' = "wait"
            /\ UNCHANGED <<m_mutex, result>>
       ELSE /\ c_pc' = "idle"
            /\ m_mutex' = "free"
            /\ result' = "noentry"
    /\ UNCHANGED <<queueState, m_break, m_delay, clock, consumerLocals,
                   notifyState, producerHistory, delivered>>

\* line 78: if (!m_break); lines 80-81 return (the unique_lock unlocks)
checkBreak ==
    /\ c_pc = "checkBreak"
    /\ IF ~m_break
       THEN /\ c_pc' = "wait"
            /\ UNCHANGED <<m_mutex, result>>
       ELSE /\ c_pc' = "idle"
            /\ m_mutex' = "free"
            /\ result' = "noentry"
    /\ UNCHANGED <<queueState, m_break, m_delay, clock, consumerLocals,
                   notifyState, producerHistory, delivered>>

\* line 79: m_cond.wait(lockGuard) unlocks and blocks, atomically
condWait ==
    /\ c_pc = "wait"
    /\ c_pc' = "waiting"
    /\ m_mutex' = "free"
    /\ UNCHANGED <<queueState, m_break, m_delay, clock, consumerLocals,
                   notifyState, producerHistory, delivered, result>>

\* line 79: std::condition_variable::wait may return spuriously
spuriousWakeup ==
    /\ c_pc = "waiting"
    /\ c_pc' = "woken"
    /\ UNCHANGED <<queueState, m_break, m_delay, m_mutex, clock,
                   consumerLocals, notifyState, producerHistory, delivered,
                   result>>

\* line 79: wait re-locks the mutex before it returns to the loop test
condRelock ==
    /\ c_pc = "woken"
    /\ m_mutex = "free"
    /\ m_mutex' = "consumer"
    /\ c_pc' = "checkEmpty"
    /\ UNCHANGED <<queueState, m_break, m_delay, clock, consumerLocals,
                   notifyState, producerHistory, delivered, result>>

\* ------------------------------------------------ consumer: lines 85-104
\* lines 86-88: while (!get) { element; now = steady_clock::now();
sampleNow ==
    /\ c_pc = "loop"
    /\ now' = clock
    /\ c_pc' = "lock2"
    /\ UNCHANGED <<queueState, m_break, m_delay, m_mutex, clock, element, get,
                   wakeAt,
                   notifyState, producerHistory, delivered, result>>

\* line 90: unique_lock(m_mutex)
lockForBack ==
    /\ c_pc = "lock2"
    /\ m_mutex = "free"
    /\ m_mutex' = "consumer"
    /\ c_pc' = "back"
    /\ UNCHANGED <<queueState, m_break, m_delay, clock, consumerLocals,
                   notifyState, producerHistory, delivered, result>>

\* lines 91-102 with the lock's block closed after the sleep instead of at
\* line 97: the consumer goes to sleep_for with the mutex held
inspectBack_sleepsLocked ==
    /\ c_pc = "back"
    /\ IF m_list = <<>>
       THEN /\ c_pc' = "crashed"
            /\ UNCHANGED <<queueState, m_mutex, element, get>>
       ELSE LET e == Back(m_list)
            IN /\ element' = e
               /\ IF Expired(now, e.time)
                  THEN /\ m_list' = PopBack(m_list)
                       /\ m_map' = MapErase(m_map, e.key)
                       /\ get' = TRUE
                       /\ m_mutex' = "free"
                       /\ c_pc' = "callback"
                  ELSE /\ UNCHANGED <<queueState, get, m_mutex>>
                       /\ c_pc' = "sleep"
    /\ UNCHANGED <<m_break, m_delay, clock, now, wakeAt, notifyState,
                   producerHistory, delivered, result>>

\* lines 91-97: element = m_list.back(); if (now > element->time) { pop_back;
\* m_map.erase(element->key); get = true; } and the unlock at line 97.
\* back() of an empty list is undefined behaviour.  What a build makes of it:
\* back() designates the list's own header node, and the bytes read as the
\* shared_ptr's pointer are the list's size field, which is 0 for an empty
\* list; copying the shared_ptr or reading element->time through the null
\* pointer faults.  Programs built from this header with g++ at -O0 and at
\* -O2 end with SIGSEGV at this point, whether or not the consumer has waited
\* on m_cond before.  The fault ends the process (c_pc = "crashed").
inspectBack ==
    /\ c_pc = "back"
    /\ IF m_list = <<>>
       THEN /\ c_pc' = "crashed"
            /\ UNCHANGED <<queueState, m_mutex, element, get>>
       ELSE LET e == Back(m_list)
            IN /\ element' = e
               /\ m_mutex' = "free"
               /\ IF Expired(now, e.time)
                  THEN /\ m_list' = PopBack(m_list)
                       /\ m_map' = MapErase(m_map, e.key)
                       /\ get' = TRUE
                       /\ c_pc' = "callback"
                  ELSE /\ UNCHANGED <<queueState, get>>
                       /\ c_pc' = "sleep"
    /\ UNCHANGED <<m_break, m_delay, clock, now, wakeAt, notifyState,
                   producerHistory, delivered, result>>

\* line 99 in a loop that does not end with the callback: the call goes round
\* again instead of returning
callback_loopsOn ==
    /\ c_pc = "callback"
    /\ delivered' = Append(delivered, [key |-> element.key,
                                       info |-> element.info,
                                       id |-> element.id])
    /\ result' = "delivered"
    /\ c_pc' = "loop"
    /\ now' = 0
    /\ element' = NoElement
    /\ get' = FALSE
    /\ UNCHANGED <<queueState, m_break, m_delay, m_mutex, clock, wakeAt,
                   notifyState, producerHistory>>

\* line 99: onExpired(element->key, element->info); the loop ends and the
\* call returns, which ends the lifetime of its locals
callback ==
    /\ c_pc = "callback"
    /\ delivered' = Append(delivered, [key |-> element.key,
                                       info |-> element.info,
                                       id |-> element.id])
    /\ result' = "delivered"
    /\ c_pc' = "idle"
    /\ now' = 0
    /\ element' = NoElement
    /\ get' = FALSE
    /\ UNCHANGED <<queueState, m_break, m_delay, m_mutex, clock, wakeAt,
                   notifyState, producerHistory>>

\* line 101: std::this_thread::sleep_for(element->time - now) begins
sleepFor ==
    /\ c_pc = "sleep"
    /\ wakeAt' = Min(clock + (element.time - now), MaxTime)
    /\ c_pc' = "sleeping"
    /\ UNCHANGED <<queueState, m_break, m_delay, m_mutex, clock, now, element,
                   get, notifyState, producerHistory, delivered, result>>

\* line 101: sleep_for returns once the duration has elapsed; line 102 ends
\* the iteration and with it the lifetime of `element` and `now`
sleepDone ==
    /\ c_pc = "sleeping"
    /\ clock >= wakeAt
    /\ c_pc' = "loop"
    /\ now' = 0
    /\ element' = NoElement
    /\ wakeAt' = 0
    /\ UNCHANGED <<queueState, m_break, m_delay, m_mutex, clock, get,
                   notifyState, producerHistory, delivered, result>>

\* ----------------------------------------------------------------- clock
Tick ==
    /\ Running
    /\ clock < MaxTime
    /\ clock' = clock + 1
    /\ UNCHANGED <<queueState, m_break, m_delay, m_mutex, c_pc,
                   consumerLocals, notifyState, producerHistory, delivered,
                   result>>

\* ------------------------------------------------------------------ Next
\* the steps of a waitUntilExpired call that the thread takes by itself
consumerStep ==
    \/ lockForWait
    \/ checkEmpty
    \/ checkBreak
    \/ condWait
    \/ condRelock
    \/ sampleNow
    \/ lockForBack
    \/ inspectBack
    \/ callback
    \/ sleepFor
    \/ sleepDone

waitUntilExpired ==
    \/ waitUntilExpiredCall
    \/ spuriousWakeup
    \/ consumerStep

\* the steps of a notify() call already entered
notifyStep ==
    \/ notifySetBreak
    \/ notifySignal

notify ==
    \/ notifyCall
    \/ notifyStep

Next ==
    \/ \E key \in Keys, info \in Infos : reQueue(key, info)
    \/ \E key \in Keys : remove(key)
    \/ notify
    \/ waitUntilExpired
    \/ Tick

Spec == Init /\ [][Next]_vars

\* A thread that is runnable runs: a waitUntilExpired call and a notify()
\* call, once entered, take their next step if it stays enabled, and time
\* passes.  Entering a call is up to the caller, and a spurious wake-up is
\* owed to nobody.
Fairness ==
    /\ WF_vars(consumerStep)
    /\ WF_vars(notifyStep)
    /\ WF_vars(Tick)

\* Whether the consumer is woken and whether it returns does not depend on
\* the payloads, which the queue never inspects: the behaviours checked for
\* progress carry one payload value.
LiveNext ==
    \/ \E key \in Keys : reQueue(key, "x")
    \/ \E key \in Keys : remove(key)
    \/ notify
    \/ waitUntilExpired
    \/ Tick

FairSpec == Init /\ [][LiveNext]_vars /\ Fairness

\* ============================================================== properties
KeysOf(list) == {list[i].key : i \in DOMAIN list}

\* the consumer's wait-for-non-empty step, lines 75-84
WaitStep == {"checkEmpty", "checkBreak", "wait", "waiting", "woken"}

\* the step of inspectBack that takes the oldest element out of the list
Dequeues == c_pc = "back" /\ c_pc' = "callback"

\* C1: in every reachable state the list holds at most one element per key,
\* and the index maps exactly the keys of the list, each to the node of its
\* own element.
C1_OneEntryPerKeyAndIndexExact ==
    /\ \A i, j \in DOMAIN m_list : m_list[i].key = m_list[j].key => i = j
    /\ DOMAIN m_map = KeysOf(m_list)
    /\ \A i \in DOMAIN m_list : m_map[m_list[i].key] = m_list[i].id

\* C1 witness: a key was reQueued twice (a refresh) and its single element is
\* the one of the second call, while the consumer has begun a call.
C1_Witness ==
    /\ Len(m_list) = 1
    /\ m_list[1].id = 2
    /\ \A k \in Keys \ {m_list[1].key} : lastReq[k] = NoReq
    /\ c_pc = "sleeping"

\* C2: the consumer never applies back() to an empty list: whenever it holds
\* the lock at line 91, about to read m_list.back(), the list is non-empty.
C2_BackOnlyOfNonEmpty == c_pc = "back" => m_list # <<>>

\* C3: once a notify() call has returned while the consumer is in its
\* wait-for-non-empty step, the consumer eventually returns without a
\* callback, unless the list becomes non-empty.
C3_ShutdownWakesWaiter ==
    (notifyReturned /\ c_pc \in WaitStep)
        ~> ((c_pc = "idle" /\ result = "noentry") \/ m_list # <<>>)

\* C4: the callbacks come in the order of the reQueue calls that created the
\* delivered elements: an element of an earlier reQueue call is delivered
\* before one of a later call.
C4_DeliveredInInsertionOrder ==
    \A i, j \in DOMAIN delivered :
        i < j => delivered[i].id < delivered[j].id

\* C4 witness: two elements of two keys have been delivered.
C4_Witness ==
    /\ Len(delivered) = 2
    /\ delivered[1].key # delivered[2].key

\* C5: the element the consumer takes out of the list for a key is the one
\* of the latest reQueue call for that key and carries the payload of that
\* call, never one of an earlier call.
C5_OnlyLatestEntryDequeued ==
    [][Dequeues => /\ element'.id = lastReq[element'.key].id
                   /\ element'.info = lastReq[element'.key].info]_vars

\* C5 witness: a key was reQueued twice with different payloads and the
\* callback is about to run with the payload of the second call.
C5_Witness ==
    /\ c_pc = "callback"
    /\ element.id = 2
    /\ \A k \in Keys \ {element.key} : lastReq[k] = NoReq
    /\ element.info = "y"

\* C6: when the callback is about to run for an element, the clock is at
\* least the element's insertion time plus the delay, which is its expiry
\* time.
C6_NoEarlyDelivery ==
    c_pc = "callback" =>
        /\ element.time = element.ins + m_delay
        /\ clock >= element.ins + m_delay

\* C6 witness: the callback is about to run for an element, the clock was
\* sampled before the lock was taken and time has passed since.
C6_Witness ==
    /\ c_pc = "callback"
    /\ now = element.time + 1
    /\ clock > now

\* C7: the consumer never takes out of the list an element whose key was
\* removed by a remove() call that has returned with no reQueue of that key
\* since; so a remove that returned before a call started, with no later
\* reQueue, keeps that call and every later one from delivering the key.
C7_RemovedKeyNotDequeued ==
    [][Dequeues => element'.key \notin removed]_vars

\* C7 witness: a key was reQueued and then removed, and the callback is about
\* to run for the other key.
C7_Witness ==
    /\ c_pc = "callback"
    /\ \E k \in removed : lastReq[k].id > 0 /\ k # element.key

\* C8: once a notify() call has returned, a consumer that finds the list
\* empty at line 77 goes on to the test of m_break, and from that test it
\* returns at once, without waiting on the condition and with no callback.
C8_AfterShutdownEmptyReturns ==
    /\ [][(notifyReturned /\ c_pc = "checkEmpty" /\ m_list = <<>>
            /\ c_pc' # c_pc) => c_pc' = "checkBreak"]_vars
    /\ [][(notifyReturned /\ c_pc = "checkBreak" /\ c_pc' # c_pc)
            => (c_pc' = "idle" /\ result' = "noentry"
                /\ delivered' = delivered)]_vars

\* C8 witness: notify() has returned and a call has returned with no entry.
C8_Witness ==
    /\ notifyReturned
    /\ c_pc = "idle"
    /\ result = "noentry"

\* C9: a call ends without a callback only at a moment when m_break is set
\* and the list is empty under the lock; a call that sees a non-empty list
\* at line 77 goes on to the delivery loop whatever m_break is.
C9_NoEntryOnlyOnShutdownAndEmpty ==
    /\ [][(result' = "noentry" /\ result # "noentry")
            => (m_break /\ m_list = <<>> /\ c_pc = "checkBreak")]_vars
    /\ [][(c_pc = "checkEmpty" /\ m_list # <<>> /\ c_pc' # c_pc)
            => c_pc' = "loop"]_vars
    /\ [][(c_pc' = "idle" /\ c_pc # "idle")
            => result' \in {"noentry", "delivered"}]_vars

\* C9 witness: m_break is set, the list was non-empty and the callback is
\* about to run.
C9_Witness ==
    /\ m_break
    /\ c_pc = "callback"

\* C10: a consumer that was blocked on the condition and finds itself with a
\* non-empty list eventually runs the callback, unless the list is emptied
\* by remove; and a call that runs the callback returns.
C10_InsertWakesAndDelivers ==
    /\ (c_pc \in {"waiting", "woken"} /\ m_list # <<>>)
          ~> (c_pc = "callback" \/ m_list = <<>>)
    /\ (c_pc = "callback") ~> (c_pc = "idle" /\ result = "delivered")

\* C10 witness: the consumer was blocked on the condition with no shutdown
\* requested, a reQueue made the list non-empty and woke it.
C10_Witness ==
    /\ c_pc = "woken"
    /\ m_list # <<>>
    /\ ~m_break
    /\ n_pc = "idle"

\* C11: a call runs the callback at most once, for the element that this call
\* took out of the list and the index, and then returns; a call that took an
\* element out leaves line 99 only by running the callback for it.
C11_OneCallbackPerCallForItsEntry ==
    /\ [][delivered' # delivered =>
            /\ c_pc = "callback" /\ get /\ result = "none"
            /\ delivered' = Append(delivered, [key |-> element.key,
                                               info |-> element.info,
                                               id |-> element.id])
            /\ c_pc' = "idle"]_vars
    /\ [][Dequeues =>
            /\ element' = Back(m_list)
            /\ m_list' = PopBack(m_list)
            /\ element'.key \notin DOMAIN m_map'
            /\ get']_vars
    /\ [][c_pc = "callback" =>
            \/ c_pc' = "callback" /\ element' = element
            \/ delivered' # delivered]_vars
    /\ [](get => c_pc = "callback")

\* C11 witness: a call has run the callback once and returned while another
\* element was still in the list.
C11_Witness ==
    /\ c_pc = "idle"
    /\ result = "delivered"
    /\ Len(delivered) = 1
    /\ m_list # <<>>

\* the nodes of a list
IdsOf(list) == {list[i].id : i \in DOMAIN list}

\* the numbers of the reQueue calls whose elements were handed to the callback
DeliveredIds == {delivered[i].id : i \in DOMAIN delivered}

\* C12: an element leaves the list only by being consumed, by a reQueue of
\* its own key or by a remove of its own key; what the consumer takes out is
\* the element of a reQueue call made before, with that call's key and
\* payload, neither superseded nor removed in between; and no reQueue call
\* is handed to the callback twice.
C12_EntriesLeaveOnlyByRemoveRefreshConsume ==
    /\ [][IdsOf(m_list) \ IdsOf(m_list') # {} =>
            \/ /\ Dequeues
               /\ IdsOf(m_list) \ IdsOf(m_list') = {element'.id}
            \/ /\ nextId' = nextId + 1
               /\ m_list'[1].id = nextId
               /\ IdsOf(m_list) \ IdsOf(m_list') = {m_map[m_list'[1].key]}
            \/ /\ nextId' = nextId
               /\ delivered' = delivered
               /\ \E k \in removed' \ removed :
                     IdsOf(m_list) \ IdsOf(m_list') = {m_map[k]}]_vars
    /\ [][Dequeues =>
            /\ element'.id \in 1..(nextId - 1)
            /\ lastReq[element'.key] =
                   [id |-> element'.id, info |-> element'.info]
            /\ element'.key \notin removed]_vars
    /\ [](\A i, j \in DOMAIN delivered :
             delivered[i].id = delivered[j].id => i = j)
    /\ [](c_pc = "callback" => element.id \notin DeliveredIds)
    /\ [](DeliveredIds \subseteq 1..(nextId - 1))

\* C12 witness: of two reQueue calls one was handed to the callback and the
\* other was removed.
C12_Witness ==
    /\ Len(delivered) = 1
    /\ \E k \in removed : lastReq[k].id > 0 /\ lastReq[k].id # delivered[1].id
    /\ m_list = <<>>

\* C13: m_list, m_map and m_break are touched only by a thread that holds
\* m_mutex: the consumer holds it wherever it reads or writes them (lines
\* 77-79 and 91-95), and a thread in notify() holds it when it stores to
\* m_break at line 69.  (reQueue and remove run under their lock_guard within
\* one action; m_mutex names the holder across steps, and no statement of
\* notify() ever makes its caller the holder.)
C13_StateTouchedOnlyUnderMutex ==
    /\ c_pc \in {"checkEmpty", "checkBreak", "wait", "back"}
           => m_mutex = "consumer"
    /\ n_pc = "setBreak" => m_mutex = "notifier"

\* C14: the list is sorted by expiry time: from the front (newest) to the
\* back (oldest) the time never increases, so the back element has the least
\* expiry time of all.
C14_SortedByExpiry ==
    \A i, j \in DOMAIN m_list : i < j => m_list[i].time >= m_list[j].time

\* C14 witness: two elements with different expiry times are in the list.
C14_Witness ==
    /\ Len(m_list) = 2
    /\ m_list[1].time > m_list[2].time

\* C15: the consumer holds m_mutex only at lines 77-79 and 91-96, never while
\* it waits on the condition, sleeps or runs the callback; and while the
\* process runs, a consumer that holds the mutex can always take its next
\* step, so a producer waits for the mutex for a few consumer steps at most.
C15_MutexNotHeldWhileConsumerBlocks ==
    /\ c_pc \in {"idle", "lock1", "waiting", "woken", "loop", "lock2",
                 "sleep", "sleeping", "callback"} => m_mutex = "free"
    /\ (m_mutex = "consumer" /\ Running) => ENABLED consumerStep

\* C15 witness: while the consumer slept on an element, a producer took the
\* mutex and reQueued that element's key.
C15_Witness ==
    /\ c_pc = "sleeping"
    /\ lastReq[element.key].id > element.id

\* C16: a remove of a key that has no element in the list leaves the list,
\* the index and m_break as they are and wakes no waiter.  (remove is the one
\* action that adds a key to `removed`.)
C16_RemoveOfAbsentKeyChangesNothing ==
    [][(\E k \in removed' \ removed : k \notin KeysOf(m_list)) =>
          /\ m_list' = m_list
          /\ m_map' = m_map
          /\ m_break' = m_break
          /\ c_pc' = c_pc]_vars

\* C16 witness: a key that was never reQueued has been removed while the
\* consumer is blocked on the condition.
C16_Witness ==
    /\ c_pc = "waiting"
    /\ \E k \in removed : lastReq[k] = NoReq

\* C17: m_break, once set, is never cleared, and once it is set no step of a
\* notify() call changes the list, the index, the flag or the delay: a
\* further call leaves the queue as the first one left it.
C17_ShutdownIdempotentAndMonotonic ==
    /\ [][m_break => m_break']_vars
    /\ [][(m_break /\ n_pc' # n_pc) =>
            /\ m_break'
            /\ m_list' = m_list
            /\ m_map' = m_map
            /\ m_delay' = m_delay]_vars

\* C17 witness: a notify() call has returned and a second one has made its
\* store to m_break.
C17_Witness ==
    /\ notifyReturned
    /\ n_pc = "signal"
    /\ m_break

\* C18, as stated: when the consumer inspects the back element under the
\* lock, it takes it out for delivery if and only if now >= the element's
\* expiry time.
C18_DequeuedIffAtOrAfterExpiry ==
    [][(c_pc = "back" /\ c_pc' # c_pc /\ m_list # <<>>) =>
          ((c_pc' = "callback") <=> (now >= Back(m_list).time))]_vars

\* C18, amended: when the consumer inspects the back element under the lock,
\* it takes it out of the list and the index for delivery if and only if
\* now > the element's expiry time; inspected at now = expiry time the
\* element stays where it is and the consumer goes on to sleep_for, for a
\* duration of zero.
C18_DequeuedIffAfterExpiry ==
    [][(c_pc = "back" /\ c_pc' # c_pc /\ m_list # <<>>) =>
          /\ (c_pc' = "callback") <=> (now > Back(m_list).time)
          /\ (c_pc' = "sleep") <=> (now <= Back(m_list).time)
          /\ (m_list' # m_list) <=> (now > Back(m_list).time)
          /\ (m_map' # m_map) <=> (now > Back(m_list).time)
          /\ element' = Back(m_list)]_vars

\* C18 witness: the consumer has inspected an element at exactly its expiry
\* time, has left it in the list and is about to sleep for zero time.
C18_Witness ==
    /\ c_pc = "sleep"
    /\ now = element.time
    /\ m_list # <<>>
    /\ Back(m_list) = element

\* a step that changes the consumer's position and nothing else
OnlyConsumerPcChanges ==
    /\ c_pc' # c_pc
    /\ UNCHANGED <<m_list, m_map, m_break, m_delay, m_mutex, clock, now,
                   element, get, wakeAt, n_pc, nextId, delivered, result,
                   notifyReturned, removed, lastReq, reQueueSignals>>

\* C19: reQueue calls notify_one if and only if the list was empty when it
\* took the lock, and notify() always does; a waiter leaves m_cond.wait only
\* through one of these two (or spuriously); remove and the consumer's own
\* steps, the take-out included, signal nothing and wake nobody.
C19_SignalOnlyOnEmptyInsertAndShutdown ==
    /\ [][nextId' # nextId =>
            /\ m_list = <<>> => reQueueSignals' = reQueueSignals + 1
            /\ m_list # <<>> => reQueueSignals' = reQueueSignals]_vars
    /\ [][nextId' = nextId => reQueueSignals' = reQueueSignals]_vars
    /\ [][(c_pc = "waiting" /\ c_pc' # c_pc) =>
            /\ c_pc' = "woken"
            /\ \/ reQueueSignals' = reQueueSignals + 1
               \/ n_pc = "signal" /\ n_pc' = "idle"
               \/ OnlyConsumerPcChanges]_vars
    /\ [][(c_pc = "waiting" /\
             (reQueueSignals' # reQueueSignals \/
              (n_pc = "signal" /\ n_pc' = "idle"))) => c_pc' = "woken"]_vars
    /\ [][(removed' # removed /\ nextId' = nextId) => c_pc' = c_pc]_vars

\* C19 witness: a reQueue into a non-empty list has been made without a
\* signal, after one into the empty list with a signal.
C19_Witness ==
    /\ nextId = 3
    /\ reQueueSignals = 1
    /\ Len(m_list) = 2

\* the elements of a list whose key is not k, in their order
Others(list, k) == SelectSeq(list, LAMBDA e : e.key # k)

\* the index without its entry for k
IndexOfOthers(map, k) == [o \in (DOMAIN map) \ {k} |-> map[o]]

\* C20: a reQueue of a key puts the new element of that key at the front and
\* leaves the elements of all other keys as they were, in the same order,
\* with the same payloads, expiry times and index entries; a remove of a key
\* takes out that key's element and leaves all others in the same way.
C20_OnlyTheKeysEntryChanges ==
    /\ [][nextId' # nextId =>
            LET k == m_list'[1].key
            IN /\ m_list'[1].id = nextId
               /\ m_list'[1] = [key |-> k, time |-> clock + m_delay,
                                info |-> lastReq'[k].info, id |-> nextId,
                                ins |-> clock]
               /\ Tail(m_list') = Others(m_list, k)
               /\ IndexOfOthers(m_map', k) = IndexOfOthers(m_map, k)
               /\ m_map'[k] = nextId]_vars
    /\ [][(nextId' = nextId /\ removed' # removed) =>
            \E k \in removed' \ removed :
                /\ m_list' = Others(m_list, k)
                /\ m_map' = IndexOfOthers(m_map, k)]_vars

\* C20 witness: the element of one key is in the list and the other key has
\* been reQueued and then removed, which left that element in its place.
C20_Witness ==
    /\ Len(m_list) = 1
    /\ nextId = 3
    /\ \E k \in removed : lastReq[k].id > 0 /\ k # m_list[1].key
    /\ c_pc = "idle"
    /\ delivered = <<>>

====
